---- MODULE Spec2Model ----
(***************************************************************************)
(* Model of scripts/pi-status-server.py: the H2OS fleet status endpoint.   *)
(*                                                                         *)
(* One request is handled at a time (socketserver.TCPServer is             *)
(* synchronous).  A request is a walk through the statements of its        *)
(* handler; every call of a probing function is one step whose external    *)
(* tool (systemctl, pgrep, xdotool, import, /opt/take-screenshot.sh,       *)
(* /proc/uptime) answers nondeterministically.  The bytes put on the       *)
(* connection are recorded in wire, the probing calls in calls, and the    *)
(* temporary directory in tmpfiles, which outlives the request.            *)
(*                                                                         *)
(* Text is modelled as follows: the output of a tool is the sequence of    *)
(* its lines, as split on newline (so "active\n" is <<"active", "">>), a   *)
(* line being a string; a blank line is "".                                *)
(***************************************************************************)
EXTENDS Integers, Sequences, FiniteSets, TLC

VARIABLES
    pc,                 \* statement the handler is at, "idle" between requests
    path,               \* self.path of the request being (or last) handled
    systemd_services,   \* handle_status: results of the service checks so far
    processes,          \* handle_status: results of the process checks so far
    tried,              \* number of window patterns searched so far
    window_id,          \* window_id local of the screenshot handlers
    wire,               \* what the handler sent on the connection, in order
    calls,              \* probing calls of the request, in order
    tmpfiles            \* temporary directory: path -> content of each file

vars == <<pc, path, systemd_services, processes, tried, window_id, wire,
          calls, tmpfiles>>

\* ---------------------------------------------------------------- bounds

\* The temporary directory may hold this many leftover files before a new
\* screenshot request is admitted.
MaxTmpFiles == 1

\* ------------------------------------------------------------- constants

None == "None"
NoRequest == "-"

\* Python truth value of a string, bytes or None.
Truthy(x) == x # None /\ x # ""

SystemdNames == <<"groundwater-connection", "groundwater-genie-manager",
                  "groundwater-updater">>

ProcessPatterns == <<"kmzero.sh", "groundwater.sh", "main.py">>

TerminalPatterns_swapped == <<"LXTerminal", "kmzero", "Terminal">>

TerminalPatterns_repeated == <<"kmzero", "kmzero", "Terminal">>

TerminalPatterns == <<"kmzero", "LXTerminal", "Terminal">>

ChromiumPatterns == <<"Chromium", "Chrome">>

Paths == {"/status", "/", "/screenshot", "/screenshot/terminal",
          "/screenshot/chromium", "/foo"}

\* ------------------------------------------------------ text operations

RECURSIVE LStrip(_)
LStrip(lines) ==
    IF lines # <<>> /\ Head(lines) = "" THEN LStrip(Tail(lines)) ELSE lines

RECURSIVE RStrip(_)
RStrip(lines) ==
    IF lines # <<>> /\ lines[Len(lines)] = ""
    THEN RStrip(SubSeq(lines, 1, Len(lines) - 1))
    ELSE lines

\* str.strip(): blank lines at both ends go.
Strip(lines) == RStrip(LStrip(lines))

Digit(d) ==
    CASE d = 0 -> "0" [] d = 1 -> "1" [] d = 2 -> "2" [] d = 3 -> "3"
      [] d = 4 -> "4" [] d = 5 -> "5" [] d = 6 -> "6" [] d = 7 -> "7"
      [] d = 8 -> "8" [] d = 9 -> "9"

\* Decimal formatting of a natural number, as an f-string does.
RECURSIVE IntToStr(_)
IntToStr(n) ==
    IF n < 10 THEN Digit(n) ELSE IntToStr(n \div 10) \o Digit(n % 10)

\* -------------------------------------------- results of a function call

Return(v) == [ret |-> v, raised |-> FALSE]

Raise == [ret |-> None, raised |-> TRUE]

\* try: body / except Exception: return v
Except(r, v) == IF r.raised THEN Return(v) ELSE r

\* ------------------------------------------------ what the tools can do

\* subprocess.run either raises (tool not installed, timeout) or returns the
\* exit code and the captured output.
Raises == {[kind |-> "raise", exc |-> "TimeoutExpired"],
           [kind |-> "raise", exc |-> "FileNotFoundError"]}

\* systemctl is-active <unit>: prints the state of the unit and exits 0 iff
\* the unit is active or reloading, so "active" is printed only with exit 0.
SystemctlOutcomes ==
    Raises \cup {[kind |-> "exit", rc |-> 0, stdout |-> <<"active", "">>],
                 [kind |-> "exit", rc |-> 0, stdout |-> <<"reloading", "">>],
                 [kind |-> "exit", rc |-> 3, stdout |-> <<"inactive", "">>]}

\* pgrep -f <pattern>: exits 0 iff a process matched.
PgrepOutcomes ==
    {[kind |-> "raise", exc |-> "TimeoutExpired"],
     [kind |-> "exit", rc |-> 0, stdout |-> <<"812", "">>],
     [kind |-> "exit", rc |-> 1, stdout |-> <<"">>]}

\* /proc/uptime: absent, or its first line as whitespace-separated fields,
\* a field being a number (whole seconds) or not.
UptimeSamples == {3600, 90000}

UptimeOutcomes ==
    {[kind |-> "absent", fields |-> <<>>],
     [kind |-> "line", fields |-> <<>>],
     [kind |-> "line", fields |-> <<[num |-> FALSE, val |-> 0]>>]}
    \cup {[kind |-> "line",
           fields |-> <<[num |-> TRUE, val |-> u], [num |-> TRUE, val |-> 7]>>]
          : u \in UptimeSamples}

\* xdotool search --name <pattern>: one window id per line.
XdotoolOutcomes ==
    {[kind |-> "raise", exc |-> "TimeoutExpired"],
     [kind |-> "exit", rc |-> 1, stdout |-> <<"">>],
     [kind |-> "exit", rc |-> 0, stdout |-> <<"">>],
     [kind |-> "exit", rc |-> 0, stdout |-> <<"101", "">>],
     [kind |-> "exit", rc |-> 0, stdout |-> <<"102", "101", "">>]}

\* import -window <id> <file> and /opt/take-screenshot.sh <file>: the tool
\* may leave no file, an empty file or an image at the path it was given,
\* and independently exit 0, exit non-zero, or be killed on timeout.
CaptureOutcomes ==
    {[kind |-> "raise", exc |-> "FileNotFoundError", wrote |-> "none"],
     [kind |-> "raise", exc |-> "TimeoutExpired", wrote |-> "data"],
     [kind |-> "exit", rc |-> 0, wrote |-> "data"],
     [kind |-> "exit", rc |-> 0, wrote |-> "empty"],
     [kind |-> "exit", rc |-> 0, wrote |-> "none"],
     [kind |-> "exit", rc |-> 1, wrote |-> "none"],
     [kind |-> "exit", rc |-> 1, wrote |-> "data"]}

\* The image the capture tool produces of a target.
Png(target) == "PNG:" \o target

\* ------------------------------------------------------ probing functions

check_systemd_service_body(o) ==
    IF o.kind = "raise" THEN Raise
    ELSE Return(Strip(o.stdout) = <<"active">>)

check_systemd_service_nocatch(service_name, o) ==
    check_systemd_service_body(o)

check_systemd_service(service_name, o) ==
    Except(check_systemd_service_body(o), FALSE)

check_process_body(o) ==
    IF o.kind = "raise" THEN Raise ELSE Return(o.rc = 0)

check_process(pattern, o) == Except(check_process_body(o), FALSE)

\* open() raises on an absent file, [0] on a line without fields, float() on
\* a field that is not a number.
get_uptime_body(o) ==
    IF o.kind = "absent" \/ o.fields = <<>> \/ ~o.fields[1].num THEN Raise
    ELSE LET uptime_seconds == o.fields[1].val
             days == uptime_seconds \div 86400
             hours == (uptime_seconds % 86400) \div 3600
         IN  IF days > 0
             THEN Return(IntToStr(days) \o "d " \o IntToStr(hours) \o "h")
             ELSE Return(IntToStr(hours) \o "h")

get_uptime(o) == Except(get_uptime_body(o), "unknown")

\* The except clause falls through to the final return None.
get_window_id_body(o) ==
    IF o.kind = "raise" THEN Raise
    ELSE IF o.rc = 0 /\ Strip(o.stdout) # <<>>
         THEN Return(Head(Strip(o.stdout)))
         ELSE Return(None)

get_window_id(pattern, o) == Except(get_window_id_body(o), None)

\* tempfile.mktemp: a path that names no existing file.
mktemp(files) ==
    CHOOSE n \in 1..(Cardinality(files) + 1) :
        n \notin files /\ \A m \in 1..(n - 1) : m \in files

\* The result carries the temporary directory as the call leaves it.
take_screenshot_body(window_id_arg, o, files) ==
    LET temp_path == mktemp(files)
        target == IF Truthy(window_id_arg) THEN window_id_arg ELSE "screen"
        written == IF o.wrote = "none" THEN files ELSE files \cup {temp_path}
        data == IF o.wrote = "data" THEN Png(target) ELSE ""
    IN  IF o.kind = "raise"
        THEN [ret |-> None, raised |-> TRUE, files |-> written,
              temp_path |-> temp_path]
        ELSE IF o.rc = 0 /\ temp_path \in written /\ Truthy(data)
             THEN [ret |-> data, raised |-> FALSE,
                   files |-> written \ {temp_path}, temp_path |-> temp_path]
             ELSE [ret |-> None, raised |-> FALSE,
                   files |-> written \ {temp_path}, temp_path |-> temp_path]

take_screenshot(window_id_arg, o, files) ==
    LET r == take_screenshot_body(window_id_arg, o, files)
    IN  IF r.raised THEN [r EXCEPT !.raised = FALSE, !.ret = None] ELSE r

\* ------------------------------------------------------------ the wire

send_response(code) == [ev |-> "send_response", arg |-> code]

send_header(name, value) == [ev |-> "send_header", arg |-> <<name, value>>]

end_headers == [ev |-> "end_headers", arg |-> <<>>]

\* self.wfile.write(json.dumps(obj).encode())
write_json(obj) == [ev |-> "write", arg |-> [kind |-> "json", json |-> obj]]

\* self.wfile.write(data)
write_bytes(data) == [ev |-> "write", arg |-> [kind |-> "bytes", data |-> data]]

\* The 200 image/png response of the three screenshot handlers.
respond_png(data) ==
    <<send_response(200),
      send_header("Content-Type", "image/png"),
      send_header("Access-Control-Allow-Origin", "*"),
      send_header("Cache-Control", "no-cache"),
      end_headers,
      write_bytes(data)>>

respond_screenshot_failed ==
    <<send_response(500),
      send_header("Content-Type", "application/json"),
      end_headers,
      write_json([error |-> "Failed to take screenshot"])>>

respond_screenshot_404(data) ==
    IF Truthy(data) THEN respond_png(data)
    ELSE <<send_response(404),
           send_header("Content-Type", "application/json"),
           end_headers,
           write_json([error |-> "Failed to take screenshot"])>>

\* handle_screenshot once take_screenshot() has returned data.
respond_screenshot(data) ==
    IF Truthy(data) THEN respond_png(data) ELSE respond_screenshot_failed

respond_chromium_fallback_500 == respond_screenshot_failed

respond_chromium_not_running ==
    <<send_response(404),
      send_header("Content-Type", "application/json"),
      send_header("Access-Control-Allow-Origin", "*"),
      end_headers,
      write_json([error |-> "Chromium not running"])>>

respond_chromium_capture_500(data) ==
    IF Truthy(data) THEN respond_png(data) ELSE respond_screenshot_failed

\* handle_screenshot_chromium once take_screenshot(window_id) has returned.
respond_chromium_capture(data) ==
    IF Truthy(data) THEN respond_png(data) ELSE respond_chromium_not_running

respond_not_found == <<send_response(404), end_headers>>

respond_status(response) ==
    <<send_response(200),
      send_header("Content-Type", "application/json"),
      send_header("Access-Control-Allow-Origin", "*"),
      end_headers,
      write_json(response)>>

\* ---------------------------------------------------- health aggregation

Overall_partial_needs_two(running_count, total_count) ==
    IF running_count = total_count THEN "healthy"
    ELSE IF running_count > 1 THEN "partial"
    ELSE "offline"

Overall(running_count, total_count) ==
    IF running_count = total_count THEN "healthy"
    ELSE IF running_count > 0 THEN "partial"
    ELSE "offline"

\* The response dict of handle_status, uptime being get_uptime()'s result.
StatusReport(systemd, procs, uptime) ==
    LET all_services == procs @@ systemd
        running_count == Cardinality({k \in DOMAIN all_services : all_services[k]})
        total_count == Cardinality(DOMAIN all_services)
    IN  [status |-> Overall(running_count, total_count),
         systemd |-> systemd,
         processes |-> procs,
         running |-> running_count,
         total |-> total_count,
         uptime |-> uptime]

\* ------------------------------------------------------------- the server

Call(fn, arg, o, r) ==
    [fn |-> fn, arg |-> arg, outcome |-> o, ret |-> r.ret, raised |-> r.raised]

EmptyDict == <<>>

Init ==
    /\ pc = "idle"
    /\ path = NoRequest
    /\ systemd_services = EmptyDict
    /\ processes = EmptyDict
    /\ tried = 0
    /\ window_id = None
    /\ wire = <<>>
    /\ calls = <<>>
    /\ tmpfiles = {}

\* The statement do_GET dispatches a path to.
Route(p) ==
    CASE p = "/status" \/ p = "/" -> "systemd"
      [] p = "/screenshot" -> "screenshot"
      [] p = "/screenshot/terminal" -> "terminal_search"
      [] p = "/screenshot/chromium" -> "chromium_search"
      [] OTHER -> "idle"

\* A request arrives; a path that matches no route is answered at once.
\* Requests that take screenshots are admitted while the temporary directory
\* holds fewer than MaxTmpFiles leftover files.
do_GET ==
    /\ pc = "idle"
    /\ \E p \in Paths :
        /\ Route(p) \in {"screenshot", "terminal_search", "chromium_search"}
              => Cardinality(tmpfiles) < MaxTmpFiles
        /\ path' = p
        /\ pc' = Route(p)
        /\ wire' = IF Route(p) = "idle" THEN respond_not_found ELSE <<>>
    /\ systemd_services' = EmptyDict
    /\ processes' = EmptyDict
    /\ tried' = 0
    /\ window_id' = None
    /\ calls' = <<>>
    /\ UNCHANGED tmpfiles

\* An exception that reaches the handler ends the request without a
\* response (socketserver closes the connection).
Abort ==
    /\ pc' = "idle"
    /\ UNCHANGED <<path, systemd_services, processes, tried, window_id, wire,
                   tmpfiles>>

handle_status_systemd ==
    /\ pc = "systemd"
    /\ LET name == SystemdNames[Cardinality(DOMAIN systemd_services) + 1]
       IN  \E o \in SystemctlOutcomes :
            LET r == check_systemd_service(name, o)
            IN  /\ calls' = Append(calls, Call("check_systemd_service", name, o, r))
                /\ IF r.raised THEN Abort
                   ELSE /\ systemd_services' = systemd_services @@ (name :> r.ret)
                        /\ pc' = IF Cardinality(DOMAIN systemd_services') = Len(SystemdNames)
                                 THEN "processes" ELSE "systemd"
                        /\ UNCHANGED <<path, processes, tried, window_id, wire,
                                       tmpfiles>>

handle_status_processes ==
    /\ pc = "processes"
    /\ LET pattern == ProcessPatterns[Cardinality(DOMAIN processes) + 1]
       IN  \E o \in PgrepOutcomes :
            LET r == check_process(pattern, o)
            IN  /\ calls' = Append(calls, Call("check_process", pattern, o, r))
                /\ IF r.raised THEN Abort
                   ELSE /\ processes' = processes @@ (pattern :> r.ret)
                        /\ pc' = IF Cardinality(DOMAIN processes') = Len(ProcessPatterns)
                                 THEN "respond" ELSE "processes"
                        /\ UNCHANGED <<path, systemd_services, tried, window_id,
                                       wire, tmpfiles>>

\* Counts, classification, uptime and the 200 response.
handle_status_respond ==
    /\ pc = "respond"
    /\ \E o \in UptimeOutcomes :
        LET r == get_uptime(o)
        IN  /\ calls' = Append(calls, Call("get_uptime", "/proc/uptime", o, r))
            /\ IF r.raised THEN Abort
               ELSE /\ wire' = wire \o respond_status(
                                 StatusReport(systemd_services, processes, r.ret))
                    /\ pc' = "idle"
                    /\ UNCHANGED <<path, systemd_services, processes, tried,
                                   window_id, tmpfiles>>

ShotCall(arg, o, r) ==
    [fn |-> "take_screenshot", arg |-> arg, outcome |-> o, ret |-> r.ret,
     raised |-> r.raised, temp_path |-> r.temp_path,
     left |-> r.temp_path \in r.files]

\* Whole-screen screenshot; also the fallback of handle_screenshot_terminal.
handle_screenshot ==
    /\ pc = "screenshot"
    /\ \E o \in CaptureOutcomes :
        LET r == take_screenshot(None, o, tmpfiles)
        IN  /\ calls' = Append(calls, ShotCall(None, o, r))
            /\ tmpfiles' = r.files
            /\ pc' = "idle"
            /\ wire' = IF r.raised THEN wire
                       ELSE wire \o respond_screenshot(r.ret)
    /\ UNCHANGED <<path, systemd_services, processes, tried, window_id>>

\* Where a window handler goes after a search returned found.
AfterSearch(found, patterns, n, capture, otherwise) ==
    IF Truthy(found) THEN capture
    ELSE IF n < Len(patterns) THEN "search"
    ELSE otherwise

handle_screenshot_terminal_search ==
    /\ pc = "terminal_search"
    /\ \E o \in XdotoolOutcomes :
        LET pattern == TerminalPatterns[tried + 1]
            r == get_window_id(pattern, o)
            next == AfterSearch(r.ret, TerminalPatterns, tried + 1,
                                "terminal_capture", "screenshot")
        IN  /\ calls' = Append(calls, Call("get_window_id", pattern, o, r))
            /\ tried' = tried + 1
            /\ window_id' = r.ret
            /\ pc' = IF r.raised THEN "idle"
                     ELSE IF next = "search" THEN "terminal_search" ELSE next
    /\ UNCHANGED <<path, systemd_services, processes, wire, tmpfiles>>

TerminalAfterCapture_no_return(data) == "screenshot"

\* handle_screenshot_terminal returns after a successful window capture and
\* otherwise calls handle_screenshot.
TerminalAfterCapture(data) == IF Truthy(data) THEN "idle" ELSE "screenshot"

handle_screenshot_terminal_capture ==
    /\ pc = "terminal_capture"
    /\ \E o \in CaptureOutcomes :
        LET r == take_screenshot(window_id, o, tmpfiles)
        IN  /\ calls' = Append(calls, ShotCall(window_id, o, r))
            /\ tmpfiles' = r.files
            /\ wire' = IF ~r.raised /\ Truthy(r.ret)
                       THEN wire \o respond_png(r.ret) ELSE wire
            /\ pc' = IF r.raised THEN "idle" ELSE TerminalAfterCapture(r.ret)
    /\ UNCHANGED <<path, systemd_services, processes, tried, window_id>>

handle_screenshot_chromium_search ==
    /\ pc = "chromium_search"
    /\ \E o \in XdotoolOutcomes :
        LET pattern == ChromiumPatterns[tried + 1]
            r == get_window_id(pattern, o)
            next == AfterSearch(r.ret, ChromiumPatterns, tried + 1,
                                "chromium_capture", "idle")
        IN  /\ calls' = Append(calls, Call("get_window_id", pattern, o, r))
            /\ tried' = tried + 1
            /\ window_id' = r.ret
            /\ pc' = IF r.raised THEN "idle"
                     ELSE IF next = "search" THEN "chromium_search" ELSE next
            /\ wire' = IF ~r.raised /\ next = "idle"
                       THEN wire \o respond_chromium_not_running ELSE wire
    /\ UNCHANGED <<path, systemd_services, processes, tmpfiles>>

handle_screenshot_chromium_capture ==
    /\ pc = "chromium_capture"
    /\ \E o \in CaptureOutcomes :
        LET r == take_screenshot(window_id, o, tmpfiles)
        IN  /\ calls' = Append(calls, ShotCall(window_id, o, r))
            /\ tmpfiles' = r.files
            /\ pc' = "idle"
            /\ wire' = IF r.raised THEN wire
                       ELSE wire \o respond_chromium_capture(r.ret)
    /\ UNCHANGED <<path, systemd_services, processes, tried, window_id>>

Next ==
    \/ do_GET
    \/ handle_status_systemd
    \/ handle_status_processes
    \/ handle_status_respond
    \/ handle_screenshot
    \/ handle_screenshot_terminal_search
    \/ handle_screenshot_terminal_capture
    \/ handle_screenshot_chromium_search
    \/ handle_screenshot_chromium_capture

Spec == Init /\ [][Next]_vars

\* ------------------------------------------------------------ vocabulary

\* A request has been handled to its end.
Completed == pc = "idle" /\ path # NoRequest

StatusLines == SelectSeq(wire, LAMBDA e : e.ev = "send_response")

Bodies == SelectSeq(wire, LAMBDA e : e.ev = "write")

CallsOf(fn) == SelectSeq(calls, LAMBDA c : c.fn = fn)

TypeOK ==
    /\ pc \in {"idle", "systemd", "processes", "respond", "screenshot",
               "terminal_search", "terminal_capture", "chromium_search",
               "chromium_capture"}
    /\ path \in Paths \cup {NoRequest}
    /\ tried \in 0..3
    /\ window_id \in {None, "101", "102"}
    /\ tmpfiles \subseteq 1..(MaxTmpFiles + 2)

ServiceChecks ==
    SelectSeq(calls, LAMBDA c : c.fn \in {"check_systemd_service", "check_process"})

Searches == CallsOf("get_window_id")

Shots == CallsOf("take_screenshot")

\* The window the searches of the request resolved, None if they found none.
Resolved ==
    IF \E i \in 1..Len(Searches) : Truthy(Searches[i].ret)
    THEN Searches[CHOOSE i \in 1..Len(Searches) : Truthy(Searches[i].ret)].ret
    ELSE None

HasHeader(name, value) ==
    \E i \in 1..Len(wire) :
        wire[i].ev = "send_header" /\ wire[i].arg = <<name, value>>

IsJsonError(body, message) ==
    body.kind = "json" /\ body.json = [error |-> message]

IsBytes(body, data) == body.kind = "bytes" /\ body.data = data

\* ------------------------------------------------------------------ C1

\* C1: when GET /status (or /) has been answered, the report's running is
\* the number of the six checks that returned true, total is 6, and status
\* is healthy iff running = total, offline iff running = 0, partial
\* otherwise.
C1_StatusCounts ==
    (Completed /\ path \in {"/status", "/"}) =>
        /\ Len(ServiceChecks) = 6
        /\ Len(Bodies) = 1
        /\ Bodies[1].arg.kind = "json"
        /\ LET report == Bodies[1].arg.json
               trues == Cardinality({i \in 1..6 : ServiceChecks[i].ret})
           IN  /\ report.running = trues
               /\ report.total = 6
               /\ report.status \in {"healthy", "partial", "offline"}
               /\ report.status = "healthy" <=> trues = 6
               /\ report.status = "offline" <=> trues = 0
               /\ report.status = "partial" <=> (trues # 6 /\ trues # 0)

C1_Witness ==
    /\ Completed
    /\ path = "/status"
    /\ Len(Bodies) = 1
    /\ Bodies[1].arg.json.running = 1
    /\ Bodies[1].arg.json.status = "partial"

\* ------------------------------------------------------------------ C2

\* C2 as claimed: GET /screenshot/terminal always answers 200.
C2_TerminalAlways200 ==
    (Completed /\ path = "/screenshot/terminal") =>
        \A i \in 1..Len(StatusLines) : StatusLines[i].arg = 200

\* C2 amended: GET /screenshot/terminal answers 200 whenever the window
\* capture or the whole-screen fallback capture returned image data (also
\* when all three searches found nothing), and answers 500 with the error
\* "Failed to take screenshot" exactly when the whole-screen fallback capture
\* returned nothing.
C2_TerminalStatus ==
    (Completed /\ path = "/screenshot/terminal") =>
        /\ Len(StatusLines) = 1
        /\ Len(Bodies) = 1
        /\ Shots # <<>>
        /\ LET last == Shots[Len(Shots)]
               code == StatusLines[1].arg
           IN  /\ code \in {200, 500}
               /\ code = 200 <=> Truthy(last.ret)
               /\ code = 200 => IsBytes(Bodies[1].arg, last.ret)
               /\ code = 500 =>
                    /\ last.arg = None
                    /\ IsJsonError(Bodies[1].arg, "Failed to take screenshot")

C2_Witness ==
    /\ Completed
    /\ path = "/screenshot/terminal"
    /\ Len(Searches) = 3
    /\ Resolved = None
    /\ Len(StatusLines) = 1
    /\ StatusLines[1].arg = 200

\* ------------------------------------------------------------------ C3

\* C3 as claimed: once take_screenshot has returned, the temporary file it
\* allocated does not exist, and no temporary file is ever left behind.
C3_NoTempFileLeft ==
    /\ \A i \in 1..Len(Shots) : ~Shots[i].left
    /\ tmpfiles = {}

\* ------------------------------------------------------------------ C4

\* C4: when GET /screenshot/chromium has been answered and both the
\* "Chromium" and the "Chrome" search found no window, the answer is 404
\* with the JSON body {"error": "Chromium not running"} and take_screenshot
\* was not called.
C4_ChromiumNotFound ==
    (/\ Completed
     /\ path = "/screenshot/chromium"
     /\ Len(Searches) = 2
     /\ Resolved = None) =>
        /\ Len(StatusLines) = 1
        /\ StatusLines[1].arg = 404
        /\ HasHeader("Content-Type", "application/json")
        /\ Len(Bodies) = 1
        /\ IsJsonError(Bodies[1].arg, "Chromium not running")
        /\ Shots = <<>>

C4_Witness ==
    /\ Completed
    /\ path = "/screenshot/chromium"
    /\ Len(Searches) = 2
    /\ Searches[1].arg = "Chromium"
    /\ Searches[2].arg = "Chrome"
    /\ Resolved = None
    /\ Len(StatusLines) = 1

\* ------------------------------------------------------------------ C5

\* C5 as claimed: on GET /screenshot/chromium a resolved window always gives
\* 200 with the image of that window, and the 404 is sent only when neither
\* pattern resolved a window.
C5_ChromiumWindowGives200 ==
    (Completed /\ path = "/screenshot/chromium") =>
        /\ Truthy(Resolved) =>
            /\ Len(Shots) = 1
            /\ Shots[1].arg = Resolved
            /\ Len(StatusLines) = 1
            /\ StatusLines[1].arg = 200
            /\ Len(Bodies) = 1
            /\ IsBytes(Bodies[1].arg, "PNG:" \o Resolved)
        /\ (\E i \in 1..Len(StatusLines) : StatusLines[i].arg = 404)
              => Resolved = None

\* C5 amended: on GET /screenshot/chromium a resolved window is the one
\* handed to the capture; the answer is 200 with the captured image when the
\* capture returns data, and 404 "Chromium not running" when no pattern
\* resolved a window or when the capture of the resolved window returned
\* nothing.
C5_ChromiumCapture ==
    (Completed /\ path = "/screenshot/chromium") =>
        /\ Len(StatusLines) = 1
        /\ Len(Bodies) = 1
        /\ Truthy(Resolved) =>
            /\ Len(Shots) = 1
            /\ Shots[1].arg = Resolved
            /\ Truthy(Shots[1].ret) =>
                /\ StatusLines[1].arg = 200
                /\ Shots[1].ret = "PNG:" \o Resolved
                /\ IsBytes(Bodies[1].arg, Shots[1].ret)
            /\ ~Truthy(Shots[1].ret) =>
                /\ StatusLines[1].arg = 404
                /\ IsJsonError(Bodies[1].arg, "Chromium not running")
        /\ ~Truthy(Resolved) =>
            /\ Shots = <<>>
            /\ StatusLines[1].arg = 404
            /\ IsJsonError(Bodies[1].arg, "Chromium not running")

C5_Witness ==
    /\ Completed
    /\ path = "/screenshot/chromium"
    /\ Len(Searches) = 2
    /\ Searches[2].arg = "Chrome"
    /\ Truthy(Resolved)
    /\ Len(Shots) = 1
    /\ Shots[1].ret = None
    /\ Len(StatusLines) = 1
    /\ StatusLines[1].arg = 404

\* ------------------------------------------------------------------ C6

\* C6 as claimed: every response carries Access-Control-Allow-Origin: *.
C6_CorsOnEveryResponse ==
    (Completed /\ StatusLines # <<>>) =>
        HasHeader("Access-Control-Allow-Origin", "*")

\* ------------------------------------------------------------------ C7

\* No probing call of the request was made twice with the same argument.
NoCallRepeated ==
    \A i, j \in 1..Len(calls) :
        (calls[i].fn = calls[j].fn /\ calls[i].arg = calls[j].arg) => i = j

ScreenshotRoutes ==
    {"/screenshot", "/screenshot/terminal", "/screenshot/chromium"}

\* C7 as claimed: no check or window search is repeated and the screenshot
\* capture is attempted exactly once per request.
C7_CaptureExactlyOnce ==
    /\ NoCallRepeated
    /\ (Completed /\ path \in ScreenshotRoutes) => Len(Shots) = 1

\* C7 amended: within one request no service check, process check, window
\* search, window capture or whole-screen capture is made twice; the number
\* of captures is 1 on /screenshot, 0 on /screenshot/chromium when no window
\* resolved and 1 otherwise, 1 on /screenshot/terminal unless a window
\* resolved and its capture returned nothing, in which case the whole-screen
\* capture follows as a second one, and 0 on every other path.
C7_NoRetry ==
    /\ NoCallRepeated
    /\ Len(Shots) <= 2
    /\ Completed =>
        /\ path = "/screenshot" => Len(Shots) = 1
        /\ path = "/screenshot/chromium" =>
              Len(Shots) = IF Truthy(Resolved) THEN 1 ELSE 0
        /\ path = "/screenshot/terminal" =>
              /\ Len(Shots) \in {1, 2}
              /\ Len(Shots) = 2 <=>
                    (Truthy(Resolved) /\ ~Truthy(Shots[1].ret))
              /\ Len(Shots) = 2 =>
                    (Shots[1].arg = Resolved /\ Shots[2].arg = None)
        /\ path \notin ScreenshotRoutes => Shots = <<>>

C7_Witness ==
    /\ Completed
    /\ path = "/screenshot/terminal"
    /\ Len(Searches) = 3
    /\ Len(Shots) = 2
    /\ Shots[2].arg = None

\* ------------------------------------------------------------------ C8

\* The tool or file behind a call failed.
ToolFailed(c) ==
    CASE c.fn = "get_uptime" ->
            \/ c.outcome.kind = "absent"
            \/ c.outcome.fields = <<>>
            \/ ~c.outcome.fields[1].num
      [] c.fn = "take_screenshot" ->
            \/ c.outcome.kind = "raise"
            \/ c.outcome.rc # 0
            \/ c.outcome.wrote # "data"
      [] c.fn = "get_window_id" ->
            \/ c.outcome.kind = "raise"
            \/ c.outcome.rc # 0
            \/ \A i \in 1..Len(c.outcome.stdout) : c.outcome.stdout[i] = ""
      [] OTHER -> c.outcome.kind = "raise" \/ c.outcome.rc # 0

C9_TerminalOrder ==
    path = "/screenshot/terminal" =>
        /\ Len(Searches) <= 3
        /\ \A i \in 1..Len(Searches) :
            /\ Searches[i].arg = <<"kmzero", "LXTerminal", "Terminal">>[i]
            /\ calls[i] = Searches[i]
            /\ \A j \in 1..(i - 1) : Searches[j].ret = None
        /\ \A k \in 1..Len(calls) :
            calls[k].fn = "take_screenshot" =>
                IF calls[k].arg # None
                THEN /\ k = Len(Searches) + 1
                     /\ calls[k].arg = Searches[Len(Searches)].ret
                     /\ calls[k].arg = Resolved
                ELSE \/ /\ Len(Searches) = 3
                        /\ Resolved = None
                        /\ k = 4
                     \/ /\ k = Len(Searches) + 2
                        /\ calls[k - 1].fn = "take_screenshot"
                        /\ calls[k - 1].arg = Resolved
                        /\ Truthy(Resolved)
                        /\ calls[k - 1].ret = None

C9_Witness ==
    /\ Completed
    /\ path = "/screenshot/terminal"
    /\ Len(Searches) = 2
    /\ Searches[1].arg = "kmzero" /\ Searches[1].ret = None
    /\ Searches[2].arg = "LXTerminal" /\ Searches[2].ret = "102"
    /\ Len(Shots) = 2
    /\ Shots[1].arg = "102" /\ Shots[1].ret = None
    /\ Shots[2].arg = None

\* ------------------------------------------------------------------ C10

EndHeaders == SelectSeq(wire, LAMBDA e : e.ev = "end_headers")

\* C10: a request never gets a second status line or a second body, and
\* once handled it got exactly one status line, 200, 404 or 500, sent first
\* and followed by one end of headers.
C10_ExactlyOneResponse ==
    /\ Len(StatusLines) <= 1
    /\ Len(Bodies) <= 1
    /\ Completed =>
        /\ Len(StatusLines) = 1
        /\ wire[1].ev = "send_response"
        /\ wire[1].arg \in {200, 404, 500}
        /\ Len(EndHeaders) = 1
        /\ Len(Bodies) = 1 => wire[Len(wire)].ev = "write"

C10_Witness ==
    /\ Completed
    /\ path = "/screenshot/terminal"
    /\ Truthy(Resolved)
    /\ Len(Shots) = 1
    /\ Truthy(Shots[1].ret)
    /\ Len(StatusLines) = 1
    /\ StatusLines[1].arg = 200

====
